---- MODULE Spec2Model ----
(***************************************************************************)
(* A model of the drossel journal (src/lib.rs): a FIFO queue of byte       *)
(* payloads kept in an ordered key-value store.  The journal holds three   *)
(* cursors (head, tail, reserved_tail), all of them keys of the store, and *)
(* rebuilds them from the stored keys when it is opened.                   *)
(***************************************************************************)
EXTENDS Integers, Sequences, FiniteSets, TLC

\* ------------------------------------------------------------------------
\* Bounds of the model
\* ------------------------------------------------------------------------
MaxPush == 3       \* pushes in one behaviour
MaxPayload == 2    \* payloads are drawn from 1..MaxPayload
MaxOpens == 3      \* calls of Journal::open in one behaviour
MaxKeyIndex == 3   \* the key functions are applied to ids 0, IdStride, .., MaxKeyIndex * IdStride
IdStride == 255    \* distance between those ids (ids of one and of two bytes)

Payloads == 1..MaxPayload

\* ------------------------------------------------------------------------
\* Keys
\* ------------------------------------------------------------------------
\* enum KeyType { Queue, Chunk }, #[repr(u64)]: the discriminants
Queue == 0
Chunk == 1

\* Key::new
NewKey(keytype, id) == [keytype |-> keytype, id |-> id]

\* Key::empty
EmptyKey == NewKey(Queue, 0)

\* cmp comparing the id before the keytype
cmp_id_first(a, b) ==
  IF a.id < b.id THEN "Less"
  ELSE IF a.id > b.id THEN "Greater"
  ELSE IF a.keytype < b.keytype THEN "Less"
  ELSE IF a.keytype > b.keytype THEN "Greater"
  ELSE "Equal"

\* impl Ord for Key
cmp(a, b) ==
  IF a.keytype < b.keytype THEN "Less"
  ELSE IF a.keytype > b.keytype THEN "Greater"
  ELSE IF a.id < b.id THEN "Less"
  ELSE IF a.id > b.id THEN "Greater"
  ELSE "Equal"

\* Option<Vec<u8>>: None is the empty tuple, Some(v) the one-element tuple
None == << >>
Some(v) == << v >>

\* impl PartialOrd for Key
partial_cmp(a, b) ==
  IF a.keytype < b.keytype THEN Some("Less")
  ELSE IF a.keytype > b.keytype THEN Some("Greater")
  ELSE IF a.id < b.id THEN Some("Less")
  ELSE IF a.id > b.id THEN Some("Greater")
  ELSE None

\* The memory layout of struct Key { id: u64, keytype: KeyType } that
\* transmute exposes: the compiler picks the order of the two 8-byte fields
\* and the target their byte order; one build uses one layout throughout.
Layouts == [first : {"id", "keytype"}, endian : {"little", "big"}]

\* the 8 bytes of a u64 in memory
RECURSIVE LittleEndian(_, _)
LittleEndian(n, count) ==
  IF count = 0 THEN << >> ELSE << n % 256 >> \o LittleEndian(n \div 256, count - 1)

Reverse(bytes) == [i \in 1..Len(bytes) |-> bytes[Len(bytes) + 1 - i]]

U64Bytes(n, layout) ==
  IF layout.endian = "little" THEN LittleEndian(n, 8) ELSE Reverse(LittleEndian(n, 8))

\* the u64 held in 8 bytes of memory
RECURSIVE FromLittleEndian(_)
FromLittleEndian(bytes) ==
  IF bytes = << >> THEN 0 ELSE Head(bytes) + 256 * FromLittleEndian(Tail(bytes))

U64FromBytes(bytes, layout) ==
  IF layout.endian = "little" THEN FromLittleEndian(bytes) ELSE FromLittleEndian(Reverse(bytes))

\* key::Key::as_slice: the 16 bytes of the struct
as_slice(key, layout) ==
  IF layout.first = "id"
  THEN U64Bytes(key.id, layout) \o U64Bytes(key.keytype, layout)
  ELSE U64Bytes(key.keytype, layout) \o U64Bytes(key.id, layout)

\* from_u8 reading the id from the first 8 bytes whatever the layout
from_u8_id_first(bytes, layout) ==
  [keytype |-> U64FromBytes(SubSeq(bytes, 9, 16), layout),
   id      |-> U64FromBytes(SubSeq(bytes, 1, 8), layout)]

\* key::Key::from_u8: the 16 bytes (asserted) reinterpreted as the struct
from_u8(bytes, layout) ==
  IF layout.first = "id"
  THEN [keytype |-> U64FromBytes(SubSeq(bytes, 9, 16), layout),
        id      |-> U64FromBytes(SubSeq(bytes, 1, 8), layout)]
  ELSE [keytype |-> U64FromBytes(SubSeq(bytes, 1, 8), layout),
        id      |-> U64FromBytes(SubSeq(bytes, 9, 16), layout)]

\* ------------------------------------------------------------------------
\* The store (leveldb Database<Key> opened with OrdComparator): a function
\* from the keys present to their payloads
\* ------------------------------------------------------------------------
EmptyDb == [k \in {} |-> 0]

\* db.put(write_options, key, data)
put(d, key, data) == [k \in DOMAIN d \cup {key} |-> IF k = key THEN data ELSE d[k]]

\* db.get(read_options, key)
get(d, key) == IF key \in DOMAIN d THEN Some(d[key]) ELSE None

\* db.delete(write_options, key)
delete(d, key) == [k \in DOMAIN d \ {key} |-> d[k]]

\* db.keys_iter(read_options): the keys in the comparator's ascending order
RECURSIVE SortKeys(_)
SortKeys(S) ==
  IF S = {} THEN << >>
  ELSE LET first == CHOOSE k \in S : \A o \in S : cmp(k, o) # "Greater"
       IN  << first >> \o SortKeys(S \ {first})

keys_iter(d) == SortKeys(DOMAIN d)

\* ------------------------------------------------------------------------
\* Journal: the pure parts
\* ------------------------------------------------------------------------
\* read_keys with the head taken from the first key instead of the last
read_keys_head_first(d) ==
  LET iter == keys_iter(d)
      reserved == NewKey(Queue, 0)
  IN  IF Len(iter) >= 1
      THEN << iter[1], iter[1], reserved >>
      ELSE << NewKey(Queue, 0), NewKey(Queue, 0), reserved >>

\* Journal::read_keys: <<head, tail, reserved_tail>>.  iter.last() is the
\* store iterator's last(), which seeks to the largest key.
read_keys(d) ==
  LET iter == keys_iter(d)
      reserved == NewKey(Queue, 0)
  IN  IF Len(iter) >= 1
      THEN LET first == iter[1]
           IN  IF Len(iter) >= 2
               THEN << iter[Len(iter)], first, reserved >>
               ELSE << first, first, reserved >>
      ELSE << NewKey(Queue, 0), NewKey(Queue, 0), reserved >>

\* peek reading the entry under head instead of the one under tail
peek_at_head(d, h, t) == IF h.id >= t.id THEN get(d, h) ELSE None

\* Journal::peek
peek(d, h, t) == IF h.id >= t.id THEN get(d, t) ELSE None

\* pop leaving tail where it is
next_tail_stuck(t, res) == t

\* Journal::pop, the tail after the call: advanced when peek returned a value
next_tail(t, res) == IF res # None THEN [t EXCEPT !.id = t.id + 1] ELSE t

\* Journal::remove, the key it deletes
remove_key(reserved, t, rt) == IF reserved THEN t ELSE rt

\* Journal::advance_to_next_reserved, the new reserved_tail
advance_to_next_reserved(d, rt) ==
  LET iter == keys_iter(d)
  IN  IF Len(iter) >= 1 THEN iter[1] ELSE rt

\* Journal::remove: <<db, reserved_tail>> after the call
remove(d, reserved, t, rt) ==
  LET d2 == delete(d, remove_key(reserved, t, rt))
  IN  << d2, IF reserved THEN advance_to_next_reserved(d2, rt) ELSE rt >>

\* Journal::len: the results a build can produce.  head.id - tail.id on u64
\* panics when overflow checks are on and wraps modulo 2^64 when they are
\* off; a wrapped result is kept as the (negative) integer difference.
len(h, t) ==
  IF h.id >= t.id
  THEN { [kind |-> "value", n |-> h.id - t.id] }
  ELSE { [kind |-> "panic", n |-> 0],
         [kind |-> "wrapped", n |-> h.id - t.id] }

\* ------------------------------------------------------------------------
\* State
\* ------------------------------------------------------------------------
VARIABLES
  exists,         \* the store exists at the journal's path
  db,             \* the store's contents (they survive a close)
  opened,         \* a Journal handle is live
  head,           \* Journal.head
  tail,           \* Journal.tail
  reserved_tail,  \* Journal.reserved_tail
  op,             \* the last call made
  ret,            \* what the last push/pop/peek returned
  opens,          \* history: calls of Journal::open so far
  pushed,         \* history: payloads pushed, in order
  popped,         \* history: payloads returned by pop, in order
  pending,        \* history: payloads pushed and not yet returned by pop
  mark,           \* history: number of pushes made before the last open
  undelivered,    \* history: keys whose stored entry no pop has returned
  ka,             \* key functions: the first key (self)
  kb,             \* key functions: the second key (other)
  kfn,            \* key functions: the function last applied
  kout            \* key functions: its result

jvars == << exists, db, opened, head, tail, reserved_tail, op, ret,
            opens, pushed, popped, pending, mark, undelivered >>

kvars == << ka, kb, kfn, kout >>

vars == << exists, db, opened, head, tail, reserved_tail, op, ret,
           opens, pushed, popped, pending, mark, undelivered,
           ka, kb, kfn, kout >>

\* the keys the key functions are applied to
KeyIds == { i * IdStride : i \in 0..MaxKeyIndex }

Keys == { NewKey(keytype, id) : keytype \in {Queue, Chunk}, id \in KeyIds }

\* no key function has been applied
KeyIdle ==
  /\ ka = EmptyKey
  /\ kb = EmptyKey
  /\ kfn = "none"
  /\ kout = None

JournalInit ==
  /\ exists = FALSE
  /\ db = EmptyDb
  /\ opened = FALSE
  /\ head = EmptyKey
  /\ tail = EmptyKey
  /\ reserved_tail = EmptyKey
  /\ op = "init"
  /\ ret = None
  /\ opens = 0
  /\ pushed = << >>
  /\ popped = << >>
  /\ pending = << >>
  /\ mark = 0
  /\ undelivered = {}

Init == JournalInit /\ KeyIdle

\* ------------------------------------------------------------------------
\* Operations
\* ------------------------------------------------------------------------
\* Journal::new: the store is created if missing, the cursors are 0
new ==
  /\ exists' = TRUE
  /\ db' = db
  /\ head' = NewKey(Queue, 0)
  /\ tail' = NewKey(Queue, 0)
  /\ reserved_tail' = NewKey(Queue, 0)
  /\ op' = "new"

\* Journal::open_existing: it fails when the store is missing
open_existing ==
  /\ exists
  /\ LET keys == read_keys(db)
     IN  /\ head' = keys[1]
         /\ tail' = keys[2]
         /\ reserved_tail' = keys[3]
  /\ op' = "open_existing"
  /\ UNCHANGED << exists, db >>

\* Journal::open
open ==
  /\ ~opened
  /\ opens < MaxOpens
  /\ IF exists THEN open_existing ELSE new
  /\ opened' = TRUE
  /\ opens' = opens + 1
  /\ ret' = None
  /\ mark' = Len(pushed)
  /\ UNCHANGED << pushed, popped, pending, undelivered >>
  /\ UNCHANGED kvars

\* the Journal is dropped: the store is closed, its contents stay
close ==
  /\ opened
  /\ opened' = FALSE
  /\ head' = EmptyKey
  /\ tail' = EmptyKey
  /\ reserved_tail' = EmptyKey
  /\ op' = "close"
  /\ ret' = None
  /\ UNCHANGED << exists, db, opens, pushed, popped, pending, mark, undelivered >>
  /\ UNCHANGED kvars

\* Journal::push
push(data) ==
  /\ opened
  /\ Len(pushed) < MaxPush
  /\ db' = put(db, head, data)
  /\ head' = [head EXCEPT !.id = head.id + 1]
  /\ op' = "push"
  /\ ret' = None
  /\ pushed' = Append(pushed, data)
  /\ pending' = Append(pending, data)
  /\ undelivered' = undelivered \cup {head}
  /\ UNCHANGED << exists, opened, tail, reserved_tail, opens, popped, mark >>
  /\ UNCHANGED kvars

\* Journal::pop
pop ==
  /\ opened
  /\ IF head.id >= tail.id
     THEN LET res == peek(db, head, tail)
              rem == remove(db, FALSE, tail, reserved_tail)
          IN  /\ db' = rem[1]
              /\ reserved_tail' = rem[2]
              /\ tail' = next_tail(tail, res)
              /\ ret' = res
              /\ undelivered' = IF res # None
                                THEN (undelivered \ {tail}) \cap DOMAIN rem[1]
                                ELSE undelivered \cap DOMAIN rem[1]
     ELSE /\ ret' = None
          /\ UNCHANGED << db, tail, reserved_tail, undelivered >>
  /\ op' = "pop"
  /\ popped' = IF ret' # None THEN Append(popped, ret'[1]) ELSE popped
  /\ pending' = IF ret' # None /\ pending # << >> THEN Tail(pending) ELSE pending
  /\ UNCHANGED << exists, opened, head, opens, pushed, mark >>
  /\ UNCHANGED kvars

\* peek moving tail past the entry it returns
Peek_consuming ==
  /\ opened
  /\ ret' = peek(db, head, tail)
  /\ tail' = next_tail(tail, ret')
  /\ op' = "peek"
  /\ UNCHANGED << exists, db, opened, head, reserved_tail,
                  opens, pushed, popped, pending, mark, undelivered >>
  /\ UNCHANGED kvars

\* Journal::peek, called by the journal's user
Peek ==
  /\ opened
  /\ ret' = peek(db, head, tail)
  /\ op' = "peek"
  /\ UNCHANGED << exists, db, opened, head, tail, reserved_tail,
                  opens, pushed, popped, pending, mark, undelivered >>
  /\ UNCHANGED kvars

Next ==
  \/ open
  \/ close
  \/ \E data \in Payloads : push(data)
  \/ pop
  \/ Peek

Spec == Init /\ [][Next]_vars

\* the consumer keeps calling pop
SpecDrain == Init /\ [][Next]_vars /\ WF_vars(pop)

\* ------------------------------------------------------------------------
\* Journal::open when opening the store can fail
\* ------------------------------------------------------------------------
\* Journal::open on a store that exists: Database::open_with_comparator in
\* open_existing returns an Err (the store is there, the error is an I/O
\* failure), the Err(_) arm calls Journal::new, whose open then succeeds
open_fallback ==
  /\ ~opened
  /\ opens < MaxOpens
  /\ exists
  /\ new
  /\ opened' = TRUE
  /\ opens' = opens + 1
  /\ ret' = None
  /\ mark' = Len(pushed)
  /\ UNCHANGED << pushed, popped, pending, undelivered >>
  /\ UNCHANGED kvars

\* Journal::open on a store that exists: open_existing returns an Err and so
\* does Journal::new, whose Err is returned to the caller
open_failed ==
  /\ ~opened
  /\ opens < MaxOpens
  /\ exists
  /\ opens' = opens + 1
  /\ op' = "open_err"
  /\ ret' = None
  /\ UNCHANGED << exists, db, opened, head, tail, reserved_tail,
                  pushed, popped, pending, mark, undelivered >>
  /\ UNCHANGED kvars

NextFault ==
  \/ Next
  \/ open_fallback
  \/ open_failed

SpecFault == Init /\ [][NextFault]_vars

\* ------------------------------------------------------------------------
\* Journal::remove called with either flag
\* ------------------------------------------------------------------------
\* self.remove(reserved)
CallRemove(reserved) ==
  /\ opened
  /\ LET rem == remove(db, reserved, tail, reserved_tail)
     IN  /\ db' = rem[1]
         /\ reserved_tail' = rem[2]
         /\ undelivered' = undelivered \cap DOMAIN rem[1]
  /\ op' = IF reserved THEN "remove_true" ELSE "remove_false"
  /\ ret' = None
  /\ UNCHANGED << exists, opened, head, tail, opens, pushed, popped, pending, mark >>
  /\ UNCHANGED kvars

NextRemove ==
  \/ Next
  \/ \E reserved \in BOOLEAN : CallRemove(reserved)

SpecRemove == Init /\ [][NextRemove]_vars

\* ------------------------------------------------------------------------
\* The key functions, applied to every pair of keys
\* ------------------------------------------------------------------------
KeyInit ==
  /\ JournalInit
  /\ ka \in Keys
  /\ kb \in Keys
  /\ kfn = "none"
  /\ kout = None

\* self.cmp(&other)
CallCmp ==
  /\ kout' = cmp(ka, kb)
  /\ kfn' = "cmp"
  /\ UNCHANGED << ka, kb >>
  /\ UNCHANGED jvars

\* self.partial_cmp(&other)
CallPartialCmp ==
  /\ kout' = partial_cmp(ka, kb)
  /\ kfn' = "partial_cmp"
  /\ UNCHANGED << ka, kb >>
  /\ UNCHANGED jvars

\* Key::from_u8 applied to the bytes self.as_slice hands out, in one build
CallCodec ==
  /\ \E layout \in Layouts : kout' = from_u8(as_slice(ka, layout), layout)
  /\ kfn' = "codec"
  /\ UNCHANGED << ka, kb >>
  /\ UNCHANGED jvars

KeyNext ==
  \/ CallCmp
  \/ CallPartialCmp
  \/ CallCodec

SpecKey == KeyInit /\ [][KeyNext]_vars

\* ------------------------------------------------------------------------
\* Properties
\* ------------------------------------------------------------------------
IsPrefix(s, t) == Len(s) <= Len(t) /\ SubSeq(t, 1, Len(s)) = s

\* the ids of the keys the store holds
Ids(d) == { k.id : k \in DOMAIN d }

MinId(d) == CHOOSE i \in Ids(d) : \A j \in Ids(d) : i <= j

MaxId(d) == CHOOSE i \in Ids(d) : \A j \in Ids(d) : i >= j

\* what a FIFO queue holding q returns to a pop
FifoPop(q) == IF q = << >> THEN None ELSE Some(Head(q))

\* len() is defined before and after the step and has grown by delta
LenStep(delta) ==
  \A a \in len(head, tail), b \in len(head', tail') :
    a.kind = "value" /\ b.kind = "value" /\ b.n = a.n + delta

\* C1: in a journal opened on an empty store and never reopened, the values
\* returned by pop are, in order, the payloads pushed (the k-th returned value
\* is the k-th push), and pop returns none only when every pushed payload has
\* been returned.
C1_FifoWithinSession ==
  opens <= 1 =>
    /\ IsPrefix(popped, pushed)
    /\ (op = "pop" /\ ret = None => popped = pushed)
    /\ (op = "pop" /\ ret # None => ret = Some(pushed[Len(popped)]))

\* C1: three pushes, not all of the same payload, were popped in order and a
\* further pop returned none
C1_Witness ==
  /\ opens = 1
  /\ op = "pop"
  /\ ret = None
  /\ Len(popped) = 3
  /\ popped[1] # popped[2]

\* C2: after a close and a reopen, with no push since the reopen, every pop
\* returns the oldest payload pushed and not yet returned by a pop, and none
\* when there is no such payload (nothing is returned twice).
C2_RecoveryResumesPopOrder ==
  [][(op' = "pop" /\ opens = 2 /\ Len(pushed) = mark) => ret' = FifoPop(pending)]_vars

\* C3: a push never writes under a key that holds an entry no pop has
\* returned yet.
C3_PushNeverOverwritesUndelivered ==
  [][op' = "push" => head \notin undelivered]_vars

\* C4: right after a reopen, len() is the number of payloads pushed and not
\* yet popped.
C4_LenAfterReopen ==
  op = "open_existing" => len(head, tail) = { [kind |-> "value", n |-> Len(pending)] }

\* C5: a push increases len() by exactly 1 and a pop that returns a value
\* decreases len() by exactly 1.
C5_LenStepsByOne ==
  [][/\ (op' = "push" => LenStep(1))
     /\ (op' = "pop" /\ ret' # None => LenStep(-1))]_vars

\* C6: a pop on a journal with no payload that is pushed and not yet returned
\* returns none and leaves len() unchanged.
C6_PopOnEmpty ==
  [][(op' = "pop" /\ pending = << >>) =>
       (ret' = None /\ len(head', tail') = len(head, tail))]_vars

\* C7: tail <= reserved_tail <= head, and reserved_tail = tail as long as
\* remove is only ever called with reserved = false (pop is its only caller).
C7_CursorInvariant ==
  opened =>
    /\ tail.id <= reserved_tail.id
    /\ reserved_tail.id <= head.id
    /\ reserved_tail = tail

\* C8: the ids of the keys in the store are exactly tail..head-1, and there
\* are head - tail of them.
C8_CursorStoreConsistency ==
  opened =>
    /\ Ids(db) = tail.id .. (head.id - 1)
    /\ head.id - tail.id = Cardinality(DOMAIN db)

\* C9: after opening an existing store, head = tail = 0 when the store holds
\* no key; otherwise tail is the smallest and head the largest id stored.
C9_RecoverHeadTail ==
  op = "open_existing" =>
    IF DOMAIN db = {}
    THEN head = NewKey(Queue, 0) /\ tail = NewKey(Queue, 0)
    ELSE /\ tail = NewKey(Queue, MinId(db))
         /\ head = NewKey(Queue, MaxId(db))
         /\ (Cardinality(DOMAIN db) = 1 => head = tail)

\* C9: a store holding two or more keys, the smallest of them not 0, has
\* just been opened
C9_Witness ==
  /\ op = "open_existing"
  /\ Cardinality(DOMAIN db) >= 2
  /\ MinId(db) >= 1
  /\ head.id > tail.id

\* C10: right after any open, reserved_tail = tail: the smallest id stored
\* when the store holds keys, 0 otherwise.
C10_RecoverReservedTail ==
  op \in {"new", "open_existing"} =>
    /\ reserved_tail = tail
    /\ reserved_tail.id = (IF DOMAIN db = {} THEN 0 ELSE MinId(db))

\* C13: cmp orders by keytype first (a key of the smaller keytype is Less,
\* one of the larger keytype Greater, whatever the ids), by id within one
\* keytype, and is Equal exactly for equal keytype and id.
C13_KeyTotalOrder ==
  kfn = "cmp" =>
    /\ (ka.keytype < kb.keytype => kout = "Less")
    /\ (ka.keytype > kb.keytype => kout = "Greater")
    /\ (ka.keytype = kb.keytype /\ ka.id < kb.id => kout = "Less")
    /\ (ka.keytype = kb.keytype /\ ka.id > kb.id => kout = "Greater")
    /\ (kout = "Equal" <=> (ka.keytype = kb.keytype /\ ka.id = kb.id))

\* C13: a Queue key was compared with a Chunk key of a smaller id
C13_Witness ==
  /\ kfn = "cmp"
  /\ ka.keytype = Queue
  /\ kb.keytype = Chunk
  /\ ka.id > kb.id
  /\ kout = "Less"

\* C14: decoding the 16 bytes of a key gives back its keytype and its id.
C14_CodecRoundTrip ==
  kfn = "codec" => (kout.keytype = ka.keytype /\ kout.id = ka.id)

\* C14: a Chunk key whose id takes two bytes went through the codec
C14_Witness ==
  /\ kfn = "codec"
  /\ ka.keytype = Chunk
  /\ ka.id > 256

\* C19: partial_cmp(a, b) is Some(cmp(a, b)) for all keys a and b.
C19_PartialCmpAgreesWithCmp ==
  kfn = "partial_cmp" => kout = Some(cmp(ka, kb))

\* C11: peek returns none whenever head <= tail, and otherwise what the
\* store holds under the key tail.
C11_PeekResult ==
  op = "peek" => ret = (IF head.id <= tail.id THEN None ELSE get(db, tail))

\* C12: peek changes neither the cursors nor the store, a peek right after a
\* peek returns the same result, and a pop right after a peek returns what
\* the peek returned.
C12_PeekReadOnly ==
  [][/\ (op' = "peek" => UNCHANGED << head, tail, reserved_tail, db >>)
     /\ ((op = "peek" /\ op' \in {"peek", "pop"}) => ret' = ret)]_vars

\* C12: a peek has returned a payload in a journal that has popped before
C12_Witness ==
  /\ op = "peek"
  /\ ret # None
  /\ Len(popped) >= 1

\* C16: a pop that returns a value removes exactly the key at the old tail
\* from the store, advances tail by 1 and leaves head alone.
C16_PopDeletesTail ==
  [][(op' = "pop" /\ ret' # None) =>
       /\ tail' = [tail EXCEPT !.id = tail.id + 1]
       /\ tail \notin DOMAIN db'
       /\ DOMAIN db' = DOMAIN db \ {tail}
       /\ head' = head]_vars

\* C18: tail <= head in every state of an open journal, so len() is the
\* plain difference head - tail.
C18_LenNeverUnderflows ==
  opened =>
    /\ tail.id <= head.id
    /\ \A r \in len(head, tail) : r.kind = "value"

\* C20: a consumer that keeps popping an open journal gets none after finitely
\* many pops (every pop that returns a value uses up one of the head - tail + 1
\* values the journal can still return), and a pop right after a pop that
\* returned none returns none again.
C20_DrainingTerminates ==
  /\ [][(op' = "pop" /\ ret' # None) =>
          (head.id >= tail.id /\ head'.id - tail'.id < head.id - tail.id)]_vars
  /\ [][(op = "pop" /\ ret = None /\ op' = "pop") => ret' = None]_vars
  /\ (opened ~> (~opened \/ (op = "pop" /\ ret = None)))

\* C20: after a reopen, pop has returned two payloads and then none
C20_Witness ==
  /\ opens >= 2
  /\ Len(pushed) = mark
  /\ op = "pop"
  /\ ret = None
  /\ Len(popped) >= 2
  /\ tail.id > head.id

\* C15: open takes the Journal::new path (fresh cursors 0) only when the
\* store does not exist, so it never hands out cursors 0 made by Journal::new
\* over a store that holds entries.
C15_OpenFallback ==
  [][op' = "new" => (~exists /\ DOMAIN db' = {})]_vars

\* C17: remove(true) deletes the key at reserved_tail and moves reserved_tail
\* to the smallest key left (it stays when none is left); remove(false)
\* deletes the key at tail and leaves reserved_tail; both leave head and tail.
C17_RemoveWiring ==
  [][/\ (op' = "remove_true" =>
           /\ DOMAIN db' = DOMAIN db \ {reserved_tail}
           /\ reserved_tail' = (IF DOMAIN db' = {} THEN reserved_tail
                                ELSE NewKey(Queue, MinId(db'))))
     /\ (op' = "remove_false" =>
           /\ DOMAIN db' = DOMAIN db \ {tail}
           /\ reserved_tail' = reserved_tail)
     /\ (op' \in {"remove_true", "remove_false"} => (head' = head /\ tail' = tail))]_vars

====
